---- MODULE Spec2Model ----
(***************************************************************************)
(* Request handling of the FastAPI application declared in src/main.py.    *)
(*                                                                         *)
(* The application is a route table (the @app.get/@app.post/@app.put       *)
(* decorators, in the order they are executed), the parameter declarations *)
(* of every path operation function, and the bodies of those functions.    *)
(* One request is followed through                                         *)
(*   Unmatched -> Matched -> Classifying -> Validating -> Bound | Rejected *)
(* or leaves the router without a handler (NotFound, MethodNotAllowed,     *)
(* Redirected).                                                            *)
(*                                                                         *)
(* Representation:                                                         *)
(*  - a path "/a/b" is the sequence of its segments <<"a","b">>; "/" is    *)
(*    <<"">> and a trailing slash is a last empty segment;                 *)
(*  - an optional raw input (query value, cookie, body) is a sequence of   *)
(*    length 0 (absent) or 1 (present);                                    *)
(*  - Python/JSON values are tagged records (VStr, VInt, VFloat, ...);     *)
(*    a float is carried in tenths (10.5 is 105).                          *)
(*                                                                         *)
(* Routes of main.py that no property below talks about and that share no  *)
(* first segment with a modelled route (query-list-items,                  *)
(* query-metadata-items, nested-user, index-heights, example-items,        *)
(* example-field-items, example-items-multiple, extra-items) are left out  *)
(* of the table; no modelled path can match them.                          *)
(***************************************************************************)
EXTENDS Integers, Sequences, FiniteSets, TLC

VARIABLES
    state,      \* position of the request in the request state machine
    req,        \* the request being handled: method, path, query, cookies, body
    route,      \* index in app_routes of the matched template, 0 when none
    path_params,\* placeholder name -> captured raw string
    origins,    \* parameter name -> "path" | "query" | "body" | "cookie"
    values,     \* parameter name -> coerced value
    errors,     \* validation failures found for the request
    invoked,    \* name of the path operation function that was called, "" if none
    response,   \* what is sent back
    trace       \* the states the request has passed through, in order

vars == <<state, req, route, path_params, origins, values, errors, invoked, response, trace>>

----------------------------------------------------------------------------
(* Values *)

VNone == [t |-> "none"]
VStr(s) == [t |-> "str", s |-> s]
VInt(n) == [t |-> "int", n |-> n]
VFloat(x10) == [t |-> "float", x10 |-> x10]
VBool(b) == [t |-> "bool", b |-> b]
VEnum(cls, s) == [t |-> "enum", cls |-> cls, s |-> s]
VObj(f) == [t |-> "obj", f |-> f]
VModel(cls, f) == [t |-> "model", cls |-> cls, f |-> f]

Absent == <<>>
Some(x) == <<x>>

\* Python truthiness of a bound value (`if q:`, `if category:`, `if not short`).
Truthy(v) ==
    CASE v.t = "none" -> FALSE
      [] v.t = "str" -> v.s # ""
      [] v.t = "enum" -> v.s # ""
      [] v.t = "bool" -> v.b
      [] v.t = "int" -> v.n # 0
      [] v.t = "float" -> v.x10 # 0
      [] OTHER -> TRUE

----------------------------------------------------------------------------
(* Enumerations and models declared in main.py *)

ModelName == {"alexnet", "resnet", "lenet"}
Category == {"fiction", "non-fiction"}
LibUser == {"student", "teacher"}

EnumValues(cls) ==
    CASE cls = "ModelName" -> ModelName
      [] cls = "Category" -> Category
      [] cls = "LibUser" -> LibUser

NoBound == [ge |-> <<>>, le |-> <<>>, gt |-> <<>>, lt |-> <<>>]

\* A field of a pydantic model: name, type, required, bounds (floats in tenths).
Fld(name, type, required, bounds) ==
    [name |-> name, type |-> type, required |-> required, bounds |-> bounds]

Book ==
    << Fld("title", "str", TRUE, NoBound),
       Fld("author", "str", TRUE, NoBound),
       Fld("year", "int", TRUE, NoBound),
       Fld("price", "float", TRUE, NoBound),
       Fld("isbn", "int", TRUE, NoBound) >>

LibItem ==
    << Fld("title", "str", TRUE, NoBound),
       Fld("category", "enum:Category", FALSE, NoBound) >>

\* max_length=300 of description is not modelled: string lengths are not
\* represented and no body below carries a description.
FieldItem ==
    << Fld("name", "str", TRUE, NoBound),
       Fld("description", "str", FALSE, NoBound),
       Fld("price", "float", TRUE, [NoBound EXCEPT !.gt = <<0>>]),
       Fld("tax", "float", FALSE, NoBound) >>

ModelFields(cls) ==
    CASE cls = "Book" -> Book
      [] cls = "LibItem" -> LibItem
      [] cls = "FieldItem" -> FieldItem

IsModelType(type) == type \in {"model:Book", "model:LibItem", "model:FieldItem"}
IsEnumType(type) == type \in {"enum:ModelName", "enum:Category", "enum:LibUser"}

ClassOf(type) ==
    CASE type = "model:Book" -> "Book"
      [] type = "model:LibItem" -> "LibItem"
      [] type = "model:FieldItem" -> "FieldItem"
      [] type = "enum:ModelName" -> "ModelName"
      [] type = "enum:Category" -> "Category"
      [] type = "enum:LibUser" -> "LibUser"

----------------------------------------------------------------------------
(* The route table *)

Lit(text) == [kind |-> "lit", text |-> text]
Param(name) == [kind |-> "param", text |-> name]
PathParam(name) == [kind |-> "path", text |-> name]

\* A declared parameter of a path operation function.
\*   ann      explicit origin annotation: "" | "Path" | "Query" | "Body" | "Cookie"
\*   default  Absent when the parameter is required, Some(value) otherwise
\*   embed    Body(embed=True)
Decl(name, type, ann, default, embed, bounds) ==
    [name |-> name, type |-> type, ann |-> ann, default |-> default,
     embed |-> embed, bounds |-> bounds]

Plain(name, type) == Decl(name, type, "", Absent, FALSE, NoBound)
Defaulted(name, type, default) == Decl(name, type, "", Some(default), FALSE, NoBound)

LongDescription == "This is an amazing item that has a long description"

Route(method, template, handler, params) ==
    [method |-> method, template |-> template, handler |-> handler, params |-> params]

R_root == Route("GET", <<Lit("")>>, "root", <<>>)
R_read_item ==
    Route("GET", <<Lit("items"), Param("item_id")>>, "read_item",
          <<Plain("item_id", "int")>>)
R_read_user_me == Route("GET", <<Lit("users"), Lit("me")>>, "read_user_me", <<>>)
R_read_user ==
    Route("GET", <<Lit("users"), Param("user_id")>>, "read_user",
          <<Plain("user_id", "str")>>)
R_get_model ==
    Route("GET", <<Lit("models"), Param("model_name")>>, "get_model",
          <<Plain("model_name", "enum:ModelName")>>)
\* R_read_files with an ordinary placeholder in place of {file_path:path}.
R_read_files_segment ==
    Route("GET", <<Lit("files"), Param("file_path")>>, "read_files",
          <<Plain("file_path", "str")>>)
R_read_files ==
    Route("GET", <<Lit("files"), PathParam("file_path")>>, "read_files",
          <<Plain("file_path", "str")>>)
\* R_read_user_items with needy given a default.
R_read_user_items_optional_needy ==
    Route("GET", <<Lit("users"), Param("user_id"), Lit("items"), Param("item_id")>>,
          "read_user_items",
          << Plain("user_id", "int"),
             Plain("item_id", "str"),
             Defaulted("needy", "str", VStr("")),
             Defaulted("q", "str", VNone),
             Defaulted("short", "bool", VBool(FALSE)) >>)
R_read_user_items ==
    Route("GET", <<Lit("users"), Param("user_id"), Lit("items"), Param("item_id")>>,
          "read_user_items",
          << Plain("user_id", "int"),
             Plain("item_id", "str"),
             Plain("needy", "str"),
             Defaulted("q", "str", VNone),
             Defaulted("short", "bool", VBool(FALSE)) >>)
R_create_book ==
    Route("POST", <<Lit("books"), Param("category")>>, "create_book",
          << Plain("book", "model:Book"),
             Defaulted("quantity", "int", VInt(1)),
             Defaulted("category", "enum:Category", VNone) >>)
R_read_query_items ==
    Route("GET", <<Lit("query-item"), Lit("")>>, "read_query_items",
          <<Decl("q", "str", "Query", Absent, FALSE, NoBound)>>)
R_read_path_items ==
    Route("GET", <<Lit("items"), Param("item_id")>>, "read_path_items",
          << Decl("item_id", "int", "Path", Absent, FALSE, NoBound),
             Decl("desc", "bool", "Query", Some(VBool(FALSE)), FALSE, NoBound),
             Plain("q", "str") >>)
\* R_read_numeric_items with item_id declared without its lower bound.
R_read_numeric_items_no_floor ==
    Route("GET", <<Lit("numeric-items"), Param("item_id")>>, "read_numeric_items",
          << Decl("item_id", "int", "Path", Absent, FALSE,
                  [NoBound EXCEPT !.le = <<1000>>]),
             Plain("q", "str"),
             Decl("size", "float", "Query", Absent, FALSE,
                  [NoBound EXCEPT !.gt = <<0>>, !.lt = <<105>>]) >>)
\* R_read_numeric_items with lt=1000 written for le=1000.
R_read_numeric_items_strict ==
    Route("GET", <<Lit("numeric-items"), Param("item_id")>>, "read_numeric_items",
          << Decl("item_id", "int", "Path", Absent, FALSE,
                  [NoBound EXCEPT !.ge = <<1>>, !.lt = <<1000>>]),
             Plain("q", "str"),
             Decl("size", "float", "Query", Absent, FALSE,
                  [NoBound EXCEPT !.gt = <<0>>, !.lt = <<105>>]) >>)
R_read_numeric_items ==
    Route("GET", <<Lit("numeric-items"), Param("item_id")>>, "read_numeric_items",
          << Decl("item_id", "int", "Path", Absent, FALSE,
                  [NoBound EXCEPT !.ge = <<1>>, !.le = <<1000>>]),
             Plain("q", "str"),
             Decl("size", "float", "Query", Absent, FALSE,
                  [NoBound EXCEPT !.gt = <<0>>, !.lt = <<105>>]) >>)
\* R_update_lib_item with importance left without its Body annotation.
R_update_lib_item_plain_importance ==
    Route("PUT", <<Lit("lib-items"), Param("item_id")>>, "update_lib_item",
          << Plain("item_id", "int"),
             Plain("item", "model:LibItem"),
             Plain("user", "enum:LibUser"),
             Decl("importance", "int", "", Absent, FALSE,
                  [NoBound EXCEPT !.gt = <<0>>, !.lt = <<1000>>]),
             Defaulted("q", "str", VNone) >>)
R_update_lib_item ==
    Route("PUT", <<Lit("lib-items"), Param("item_id")>>, "update_lib_item",
          << Plain("item_id", "int"),
             Plain("item", "model:LibItem"),
             Plain("user", "enum:LibUser"),
             Decl("importance", "int", "Body", Absent, FALSE,
                  [NoBound EXCEPT !.gt = <<0>>, !.lt = <<1000>>]),
             Defaulted("q", "str", VNone) >>)
R_read_embed_body_item ==
    Route("GET", <<Lit("embed-body-item"), Param("item_id")>>, "read_embed_body_item",
          << Plain("item_id", "int"),
             Decl("item", "model:LibItem", "Body", Absent, TRUE, NoBound) >>)
\* R_update_field_item with Body() in place of Body(embed=True).
R_update_field_item_unembedded ==
    Route("PUT", <<Lit("field-items"), Param("item_id")>>, "update_field_item",
          << Plain("item_id", "int"),
             Decl("item", "model:FieldItem", "Body", Absent, FALSE, NoBound) >>)
R_update_field_item ==
    Route("PUT", <<Lit("field-items"), Param("item_id")>>, "update_field_item",
          << Plain("item_id", "int"),
             Decl("item", "model:FieldItem", "Body", Absent, TRUE, NoBound) >>)
R_read_cookie_items ==
    Route("GET", <<Lit("cookie-items"), Lit("")>>, "read_cookie_items",
          <<Decl("maryland_cookie", "str", "Cookie",
                 Some(VStr("default_maryland_cookie")), FALSE, NoBound)>>)

\* app_routes with /users/{user_id} registered before /users/me.
app_routes_placeholder_first ==
    << R_root, R_read_item, R_read_user, R_read_user_me, R_get_model,
       R_read_files, R_read_user_items, R_create_book, R_read_query_items,
       R_read_path_items, R_read_numeric_items, R_update_lib_item,
       R_read_embed_body_item, R_update_field_item, R_read_cookie_items >>
\* The templates in the order the decorators register them.
app_routes ==
    << R_root, R_read_item, R_read_user_me, R_read_user, R_get_model,
       R_read_files, R_read_user_items, R_create_book, R_read_query_items,
       R_read_path_items, R_read_numeric_items, R_update_lib_item,
       R_read_embed_body_item, R_update_field_item, R_read_cookie_items >>

----------------------------------------------------------------------------
(* The router: first full match in registration order *)

RECURSIVE Join(_)
\* "/".join(segments): the string a {name:path} placeholder captures.
Join(segs) ==
    IF Len(segs) = 0 THEN ""
    ELSE IF Len(segs) = 1 THEN segs[1]
    ELSE segs[1] \o "/" \o Join(Tail(segs))

HasPathConvertor(template) ==
    Len(template) > 0 /\ template[Len(template)].kind = "path"

\* One template segment against one path segment: a literal matches itself,
\* {name} matches [^/]+ (a non-empty segment).
SegmentMatches(tseg, seg) ==
    CASE tseg.kind = "lit" -> seg = tseg.text
      [] tseg.kind = "param" -> seg # ""
      [] tseg.kind = "path" -> TRUE

\* The compiled path regex of a template, anchored at both ends; {name:path}
\* is ".*" and takes every remaining segment, slashes included.
PathMatches(template, path) ==
    IF HasPathConvertor(template)
    THEN /\ Len(path) >= Len(template)
         /\ \A i \in 1..(Len(template) - 1) : SegmentMatches(template[i], path[i])
    ELSE /\ Len(path) = Len(template)
         /\ \A i \in 1..Len(template) : SegmentMatches(template[i], path[i])

PlaceholderNames(template) ==
    {template[i].text : i \in {j \in 1..Len(template) : template[j].kind # "lit"}}

\* match.groupdict(): placeholder name -> captured raw string.
Capture(template, path) ==
    [name \in PlaceholderNames(template) |->
        LET i == CHOOSE j \in 1..Len(template) :
                    template[j].kind # "lit" /\ template[j].text = name
        IN IF template[i].kind = "path"
           THEN Join(SubSeq(path, i, Len(path)))
           ELSE path[i]]

\* Route.matches: NONE when the path does not match, PARTIAL when only the
\* method differs, FULL otherwise.
RouteMatch(r, method, path) ==
    IF ~PathMatches(r.template, path) THEN "NONE"
    ELSE IF r.method # method THEN "PARTIAL"
    ELSE "FULL"

RECURSIVE RStripSlashes(_)
\* path.rstrip("/")
RStripSlashes(path) ==
    IF Len(path) > 0 /\ path[Len(path)] = ""
    THEN RStripSlashes(SubSeq(path, 1, Len(path) - 1))
    ELSE path

\* The path the router retries with when redirect_slashes is on.
ToggleSlash(path) ==
    IF path[Len(path)] = "" THEN RStripSlashes(path) ELSE Append(path, "")

RECURSIVE Scan(_, _, _, _, _)
\* The scan loop of the router over `table` from index i: the first FULL
\* match is taken at once, the first PARTIAL match is remembered.
Scan(table, i, method, path, partial) ==
    IF i > Len(table) THEN [kind |-> "none", idx |-> 0, partial |-> partial]
    ELSE LET m == RouteMatch(table[i], method, path)
         IN IF m = "FULL" THEN [kind |-> "full", idx |-> i, partial |-> partial]
            ELSE IF m = "PARTIAL" /\ partial = 0
                 THEN Scan(table, i + 1, method, path, i)
                 ELSE Scan(table, i + 1, method, path, partial)

\* The outcome of routing one request over `table`.
Resolve(table, method, path) ==
    LET s == Scan(table, 1, method, path, 0)
    IN IF s.kind = "full"
       THEN [outcome |-> "Matched", idx |-> s.idx,
             handler |-> table[s.idx].handler,
             params |-> Capture(table[s.idx].template, path)]
       ELSE IF s.partial # 0
       THEN [outcome |-> "MethodNotAllowed", idx |-> 0, handler |-> "", params |-> <<>>]
       ELSE IF /\ path # <<"">>
               /\ \E j \in 1..Len(table) :
                      RouteMatch(table[j], method, ToggleSlash(path)) # "NONE"
       THEN [outcome |-> "Redirected", idx |-> 0, handler |-> "", params |-> <<>>]
       ELSE [outcome |-> "NotFound", idx |-> 0, handler |-> "", params |-> <<>>]

----------------------------------------------------------------------------
(* Parameter classification *)

\* The origin FastAPI gives a declared parameter of a route.
Origin(template, d) ==
    IF d.ann = "Path" THEN "path"
    ELSE IF d.ann = "Query" THEN "query"
    ELSE IF d.ann = "Body" THEN "body"
    ELSE IF d.ann = "Cookie" THEN "cookie"
    ELSE IF d.name \in PlaceholderNames(template) THEN "path"
    ELSE IF IsModelType(d.type) THEN "body"
    ELSE "query"

DeclNames(r) == {r.params[i].name : i \in 1..Len(r.params)}
DeclOf(r, name) == r.params[CHOOSE i \in 1..Len(r.params) : r.params[i].name = name]

Classification(r) == [name \in DeclNames(r) |-> Origin(r.template, DeclOf(r, name))]

BodyParamNames(r) == {name \in DeclNames(r) : Origin(r.template, DeclOf(r, name)) = "body"}

\* Whether the body is an object keyed by parameter name: more than one body
\* parameter, or a single one marked embed.
EmbedBodyFields(r) ==
    \/ Cardinality(BodyParamNames(r)) > 1
    \/ \E name \in BodyParamNames(r) : DeclOf(r, name).embed

----------------------------------------------------------------------------
(* Coercion and validation *)

\* int(s) on the numerals the requests below can carry; any other string
\* does not parse as an integer.
IntLiteral ==
    [s \in {"0", "1", "2", "5", "7", "999", "1000", "1001", "2000"} |->
        CASE s = "0" -> 0 [] s = "1" -> 1 [] s = "2" -> 2 [] s = "5" -> 5
          [] s = "7" -> 7 [] s = "999" -> 999 [] s = "1000" -> 1000
          [] s = "1001" -> 1001 [] s = "2000" -> 2000]

\* float(s) in tenths: every integer numeral, and the decimals used below.
FloatLiteral ==
    [s \in DOMAIN IntLiteral \cup {"0.1", "10.4", "10.5", "10.6"} |->
        CASE s = "0.1" -> 1 [] s = "10.4" -> 104 [] s = "10.5" -> 105
          [] s = "10.6" -> 106 [] OTHER -> IntLiteral[s] * 10]

BoolTrue == {"true", "True", "1", "on", "yes", "y", "t"}
BoolFalse == {"false", "False", "0", "off", "no", "n", "f"}

Ok(v) == [ok |-> TRUE, v |-> v, kind |-> ""]
Fail(kind) == [ok |-> FALSE, v |-> VNone, kind |-> kind]

\* Coercion of an input value to a declared scalar type (lax mode: numbers
\* and booleans may arrive as strings).
Coerce(type, v) ==
    CASE type = "str" ->
            IF v.t = "str" THEN Ok(v) ELSE Fail("string_type")
      [] type = "int" ->
            IF v.t = "int" THEN Ok(v)
            ELSE IF v.t = "str"
                 THEN IF v.s \in DOMAIN IntLiteral
                      THEN Ok(VInt(IntLiteral[v.s])) ELSE Fail("int_parsing")
            ELSE IF v.t = "float"
                 THEN IF v.x10 % 10 = 0
                      THEN Ok(VInt(v.x10 \div 10)) ELSE Fail("int_from_float")
            ELSE Fail("int_type")
      [] type = "float" ->
            IF v.t = "float" THEN Ok(v)
            ELSE IF v.t = "int" THEN Ok(VFloat(v.n * 10))
            ELSE IF v.t = "str"
                 THEN IF v.s \in DOMAIN FloatLiteral
                      THEN Ok(VFloat(FloatLiteral[v.s])) ELSE Fail("float_parsing")
            ELSE Fail("float_type")
      [] type = "bool" ->
            IF v.t = "bool" THEN Ok(v)
            ELSE IF v.t = "str"
                 THEN IF v.s \in BoolTrue THEN Ok(VBool(TRUE))
                      ELSE IF v.s \in BoolFalse THEN Ok(VBool(FALSE))
                      ELSE Fail("bool_parsing")
            ELSE Fail("bool_type")
      [] IsEnumType(type) ->
            IF v.t = "str" /\ v.s \in EnumValues(ClassOf(type))
            THEN Ok(VEnum(ClassOf(type), v.s)) ELSE Fail("enum")

\* The number a numeric value is compared by (floats in tenths, so integer
\* bounds of a float are scaled by the declaration).
Magnitude(v) == IF v.t = "int" THEN v.n ELSE v.x10

\* The bound kinds a coerced number violates: ge/le inclusive, gt/lt strict.
BoundViolations(bounds, v) ==
    IF v.t \notin {"int", "float"} THEN {}
    ELSE {k \in {"greater_than_equal", "less_than_equal", "greater_than", "less_than"} :
            \/ k = "greater_than_equal" /\ bounds.ge # <<>> /\ ~(Magnitude(v) >= bounds.ge[1])
            \/ k = "less_than_equal" /\ bounds.le # <<>> /\ ~(Magnitude(v) <= bounds.le[1])
            \/ k = "greater_than" /\ bounds.gt # <<>> /\ ~(Magnitude(v) > bounds.gt[1])
            \/ k = "less_than" /\ bounds.lt # <<>> /\ ~(Magnitude(v) < bounds.lt[1])}

Err(loc, kind, input, expected) ==
    [loc |-> loc, kind |-> kind, input |-> input, expected |-> expected]

Result(val, errs) == [val |-> val, errs |-> errs]

\* Type coercion, then range checks, of one present scalar.
ValidateScalar(loc, type, bounds, v) ==
    LET c == Coerce(type, v)
    IN IF ~c.ok
       THEN Result(Absent,
                   {Err(loc, c.kind, v,
                        IF IsEnumType(type) THEN EnumValues(ClassOf(type)) ELSE {})})
       ELSE LET bad == BoundViolations(bounds, c.v)
            IN IF bad = {} THEN Result(Some(c.v), {})
               ELSE Result(Absent, {Err(loc, k, v, {}) : k \in bad})

\* Validation of a JSON value against a pydantic model: every field is
\* checked and every failure reported; extra keys are ignored.
ValidateModel(loc, cls, v) ==
    IF v.t # "obj" THEN Result(Absent, {Err(loc, "model_attributes_type", v, {})})
    ELSE
      LET fields == ModelFields(cls)
          FieldResult(i) ==
              IF fields[i].name \in DOMAIN v.f
              THEN IF ~fields[i].required /\ v.f[fields[i].name] = VNone
                   THEN Result(Some(VNone), {})
                   ELSE ValidateScalar(Append(loc, fields[i].name), fields[i].type,
                                       fields[i].bounds, v.f[fields[i].name])
              ELSE IF fields[i].required
                   THEN Result(Absent, {Err(Append(loc, fields[i].name), "missing", v, {})})
                   ELSE Result(Some(VNone), {})
          errs == UNION {FieldResult(i).errs : i \in 1..Len(fields)}
          names == {fields[i].name : i \in 1..Len(fields)}
          IndexOf(name) == CHOOSE i \in 1..Len(fields) : fields[i].name = name
      IN IF errs # {} THEN Result(Absent, errs)
         ELSE Result(Some(VModel(cls, [name \in names |-> FieldResult(IndexOf(name)).val[1]])),
                     {})

ValidateValue(loc, type, bounds, v) ==
    IF IsModelType(type) THEN ValidateModel(loc, ClassOf(type), v)
    ELSE ValidateScalar(loc, type, bounds, v)

\* Presence check of an optional raw input, then validation: a missing
\* required parameter is a failure, a missing defaulted one takes its default.
ValidateOptional(loc, d, raw) ==
    IF raw = Absent
    THEN IF d.default = Absent
         THEN Result(Absent, {Err(loc, "missing", VNone, {})})
         ELSE Result(Some(d.default[1]), {})
    ELSE ValidateValue(loc, d.type, d.bounds, raw[1])

\* The raw input of a body parameter: the whole body, or its entry under the
\* parameter's name when the body fields are embedded.
BodyInput(r, d, request) ==
    IF request.body = Absent THEN Absent
    ELSE IF ~EmbedBodyFields(r) THEN request.body
    ELSE IF request.body[1].t = "obj" /\ d.name \in DOMAIN request.body[1].f
         THEN Some(request.body[1].f[d.name])
    ELSE Absent

\* The value and the failures of one declared parameter for one request.
ParamResult(r, d, request, captured) ==
    LET origin == Origin(r.template, d)
    IN CASE origin = "path" ->
               ValidateValue(<<"path", d.name>>, d.type, d.bounds, VStr(captured[d.name]))
         [] origin = "query" ->
               ValidateOptional(<<"query", d.name>>, d,
                   IF request.query[d.name] = Absent THEN Absent
                   ELSE Some(VStr(request.query[d.name][1])))
         [] origin = "cookie" ->
               ValidateOptional(<<"cookie", d.name>>, d,
                   IF request.cookies[d.name] = Absent THEN Absent
                   ELSE Some(VStr(request.cookies[d.name][1])))
         [] origin = "body" ->
               ValidateOptional(IF EmbedBodyFields(r) THEN <<"body", d.name>> ELSE <<"body">>,
                                d, BodyInput(r, d, request))

\* solve_dependencies: every parameter is validated, failures are aggregated.
AllErrors(r, request, captured) ==
    UNION {ParamResult(r, r.params[i], request, captured).errs : i \in 1..Len(r.params)}

BoundValues(r, request, captured) ==
    [name \in {n \in DeclNames(r) : ParamResult(r, DeclOf(r, n), request, captured).val # Absent} |->
        ParamResult(r, DeclOf(r, name), request, captured).val[1]]

----------------------------------------------------------------------------
(* The path operation functions *)

EmptyMap == [k \in {} |-> k]

\* dict.update
Update(d, e) == [k \in DOMAIN d \cup DOMAIN e |-> IF k \in DOMAIN e THEN e[k] ELSE d[k]]

Return(v) == [kind |-> "return", v |-> v, exc |-> ""]
Raise(exc) == [kind |-> "raise", v |-> VNone, exc |-> exc]

root(kw) == Return(VObj([message |-> VStr("Hello World")]))

read_item(kw) == Return(VObj([item_id |-> kw["item_id"]]))

read_user_me(kw) == Return(VObj([user_id |-> VStr("the current user")]))

read_user(kw) == Return(VObj([user_id |-> kw["user_id"]]))

\* get_model with the second test written for "resnet".
get_model_wrong_branch(kw) ==
    IF kw["model_name"] = VEnum("ModelName", "alexnet")
    THEN Return(VObj([model_name |-> kw["model_name"], msg |-> VStr("Deep Learning FTW!")]))
    ELSE IF kw["model_name"].s = "resnet"
    THEN Return(VObj([model_name |-> kw["model_name"], msg |-> VStr("LeCNN all the images")]))
    ELSE Return(VObj([model_name |-> kw["model_name"], msg |-> VStr("Have some residuals")]))
get_model(kw) ==
    IF kw["model_name"] = VEnum("ModelName", "alexnet")
    THEN Return(VObj([model_name |-> kw["model_name"], msg |-> VStr("Deep Learning FTW!")]))
    ELSE IF kw["model_name"].s = "lenet"
    THEN Return(VObj([model_name |-> kw["model_name"], msg |-> VStr("LeCNN all the images")]))
    ELSE Return(VObj([model_name |-> kw["model_name"], msg |-> VStr("Have some residuals")]))

read_files(kw) == Return(VObj([file_path |-> kw["file_path"]]))

\* The dict read_user_items builds in its local variable `item`.
read_user_items_item(kw) ==
    LET item0 == [item_id |-> kw["item_id"], owner_id |-> kw["user_id"],
                  needy |-> kw["needy"]]
        item1 == IF Truthy(kw["q"]) THEN Update(item0, [q |-> kw["q"]]) ELSE item0
    IN IF ~Truthy(kw["short"])
       THEN Update(item1, [description |-> VStr(LongDescription)])
       ELSE item1

\* The function ends without a return statement: its result is None.
read_user_items(kw) == Return(VNone)

\* `book.category = category` assigns an attribute Book does not declare;
\* a pydantic model refuses it with ValueError.
create_book(kw) ==
    IF Truthy(kw["category"])
    THEN Raise("ValueError")
    ELSE Return(VObj(Update(kw["book"].f, [quantity |-> kw["quantity"]])))

read_query_items(kw) == Return(VObj([k \in {kw["q"].s} |-> kw["q"]]))

read_path_items(kw) ==
    LET results == Update([item_id |-> kw["item_id"]], [q |-> kw["q"]])
    IN IF Truthy(kw["desc"])
       THEN Return(VObj(Update(results, [description |-> VStr(LongDescription)])))
       ELSE Return(VObj(results))

read_numeric_items(kw) ==
    Return(VObj([item_id |-> kw["item_id"], q |-> kw["q"], size |-> kw["size"]]))

update_lib_item(kw) ==
    LET results == [item_id |-> kw["item_id"], item |-> kw["item"],
                    user |-> kw["user"], importance |-> kw["importance"]]
    IN IF Truthy(kw["q"])
       THEN Return(VObj(Update(results, [q |-> kw["q"]])))
       ELSE Return(VObj(results))

read_embed_body_item(kw) == Return(VObj([item_id |-> kw["item_id"], item |-> kw["item"]]))

update_field_item(kw) == Return(VObj([item_id |-> kw["item_id"], item |-> kw["item"]]))

read_cookie_items(kw) == Return(VObj([maryland_cookie |-> kw["maryland_cookie"]]))

\* Calling the endpoint of a route with the bound values as keyword arguments.
Call(handler, kw) ==
    CASE handler = "root" -> root(kw)
      [] handler = "read_item" -> read_item(kw)
      [] handler = "read_user_me" -> read_user_me(kw)
      [] handler = "read_user" -> read_user(kw)
      [] handler = "get_model" -> get_model(kw)
      [] handler = "read_files" -> read_files(kw)
      [] handler = "read_user_items" -> read_user_items(kw)
      [] handler = "create_book" -> create_book(kw)
      [] handler = "read_query_items" -> read_query_items(kw)
      [] handler = "read_path_items" -> read_path_items(kw)
      [] handler = "read_numeric_items" -> read_numeric_items(kw)
      [] handler = "update_lib_item" -> update_lib_item(kw)
      [] handler = "read_embed_body_item" -> read_embed_body_item(kw)
      [] handler = "update_field_item" -> update_field_item(kw)
      [] handler = "read_cookie_items" -> read_cookie_items(kw)

\* jsonable_encoder, one value: an enum member becomes its string value and
\* a model instance the object of its fields.
SerializeLeaf(v) ==
    CASE v.t = "enum" -> VStr(v.s)
      [] v.t = "model" -> VObj([k \in DOMAIN v.f |->
                                  IF v.f[k].t = "enum" THEN VStr(v.f[k].s) ELSE v.f[k]])
      [] OTHER -> v

\* jsonable_encoder on the value a path operation function returned.
Serialize(v) ==
    IF v.t = "obj" THEN VObj([k \in DOMAIN v.f |-> SerializeLeaf(v.f[k])])
    ELSE SerializeLeaf(v)

----------------------------------------------------------------------------
(* Requests *)

Methods == {"GET", "POST", "PUT"}

QueryNames ==
    {"needy", "q", "short", "quantity", "desc", "size", "user", "importance",
     "maryland_cookie"}
CookieNames == {"maryland_cookie"}

Opt(S) == {Absent} \cup {Some(x) : x \in S}

\* A query string: every known name is absent unless f gives it a value.
Q(f) == [n \in QueryNames |-> IF n \in DOMAIN f THEN f[n] ELSE Absent]

\* The longest remainder, in segments, requested under /files/.
MaxFileDepth == 3

FileRemainders == UNION {[1..n -> {"a", "b", "c"}] : n \in 1..MaxFileDepth}

Paths ==
    { <<"">>, <<"nowhere">>,
      <<"items", "1">>, <<"items", "abc">>,
      <<"users", "me">>, <<"users", "bob">>, <<"users", "">>, <<"users", "me", "">>,
      <<"users", "1", "items", "x">>, <<"users", "bob", "items", "x">>,
      <<"users", "a", "b">>,
      <<"models", "alexnet">>, <<"models", "resnet">>, <<"models", "lenet">>,
      <<"models", "vgg">>, <<"models", "ALEXNET">>,
      <<"files", "">>, <<"files">>,
      <<"books", "fiction">>, <<"books", "non-fiction">>, <<"books", "poetry">>,
      <<"query-item", "">>, <<"query-item">>,
      <<"numeric-items", "0">>, <<"numeric-items", "1">>, <<"numeric-items", "999">>,
      <<"numeric-items", "1000">>, <<"numeric-items", "1001">>, <<"numeric-items", "x">>,
      <<"lib-items", "7">>, <<"field-items", "7">>, <<"embed-body-item", "7">>,
      <<"cookie-items", "">>, <<"cookie-items">> }
    \cup {<<"files">> \o rest : rest \in FileRemainders}

\* The query strings tried on a path: the names its routes declare, each
\* absent or with a valid or an invalid value, and names they do not declare.
QueriesFor(path) ==
    CASE path[1] = "users" /\ Len(path) = 4 ->
            {Q(f) : f \in [needy : Opt({"", "n"}), q : Opt({"", "x"}),
                           short : Opt({"false", "true", "maybe"})]}
      [] path[1] = "items" ->
            {Q(f) : f \in [q : Opt({"x"}), desc : Opt({"true"})]}
      [] path[1] = "books" ->
            {Q(f) : f \in [quantity : Opt({"2", "many"})]}
      [] path[1] = "query-item" ->
            {Q(f) : f \in [q : Opt({"", "x"})]}
      [] path[1] = "numeric-items" ->
            {Q(f) : f \in [q : Opt({"", "x"}),
                           size : Opt({"0", "0.1", "10.4", "10.5", "10.6", "big"})]}
      [] path[1] = "lib-items" ->
            {Q(f) : f \in [user : Opt({"student", "janitor"}), q : Opt({"x"}),
                           importance : Opt({"5"})]}
      [] path[1] = "cookie-items" ->
            {Q(f) : f \in [maryland_cookie : Opt({"fromquery"})]}
      [] OTHER -> {Q(EmptyMap)}

ValidBook ==
    VObj([title |-> VStr("Dune"), author |-> VStr("Herbert"), year |-> VInt(1965),
          price |-> VFloat(99), isbn |-> VInt(7)])
BookWithoutIsbn ==
    VObj([title |-> VStr("Dune"), author |-> VStr("Herbert"), year |-> VInt(1965),
          price |-> VFloat(99)])
ValidLibItem == VObj([title |-> VStr("Dune"), category |-> VStr("fiction")])
BadLibItem == VObj([title |-> VStr("Dune"), category |-> VStr("poetry")])
ValidFieldItem == VObj([name |-> VStr("Foo"), price |-> VFloat(420)])
FreeFieldItem == VObj([name |-> VStr("Foo"), price |-> VInt(0)])

ImportanceValues == {0, 1, 999, 1000}

\* The JSON bodies tried on a path: none, the model's fields at the root,
\* the fields under the parameter's name, and invalid contents.
BodiesFor(path) ==
    CASE path[1] = "books" ->
            {Absent, Some(ValidBook), Some(VObj([book |-> ValidBook])),
             Some(BookWithoutIsbn)}
      [] path[1] = "lib-items" ->
            {Absent, Some(ValidLibItem), Some(VObj([item |-> ValidLibItem])),
             Some(VObj([item |-> BadLibItem, importance |-> VInt(1)])),
             Some(VObj([item |-> ValidLibItem, importance |-> VStr("high")]))}
            \cup {Some(VObj([item |-> ValidLibItem, importance |-> VInt(n)])) :
                    n \in ImportanceValues}
      [] path[1] = "field-items" ->
            {Absent, Some(ValidFieldItem), Some(VObj([item |-> ValidFieldItem])),
             Some(VObj([item |-> FreeFieldItem]))}
      [] path[1] = "embed-body-item" ->
            {Absent, Some(ValidLibItem), Some(VObj([item |-> ValidLibItem]))}
      [] OTHER -> {Absent}

CookiesFor(path) ==
    IF path[1] = "cookie-items"
    THEN {[n \in CookieNames |-> c] : c \in Opt({"oreo"})}
    ELSE {[n \in CookieNames |-> Absent]}

Request(method, path, query, cookies, body) ==
    [method |-> method, path |-> path, query |-> query, cookies |-> cookies,
     body |-> body]

Requests ==
    UNION {{Request(m, p, q, c, b) :
                m \in Methods, q \in QueriesFor(p), c \in CookiesFor(p), b \in BodiesFor(p)} :
           p \in Paths}

NoRequest == Request("", <<>>, Q(EmptyMap), [n \in CookieNames |-> Absent], Absent)

----------------------------------------------------------------------------
(* The request state machine *)

Response(status, payload, detail, location) ==
    [status |-> status, payload |-> payload, detail |-> detail, location |-> location]

NoResponse == Response(0, VNone, {}, <<>>)

Terminal == {"NotFound", "MethodNotAllowed", "Redirected", "Bound", "Rejected"}

Init ==
    /\ state = "Idle"
    /\ req = NoRequest
    /\ route = 0
    /\ path_params = EmptyMap
    /\ origins = EmptyMap
    /\ values = EmptyMap
    /\ errors = {}
    /\ invoked = ""
    /\ response = NoResponse
    /\ trace = <<>>

\* A request arrives.
Receive(r) ==
    /\ state = "Idle"
    /\ state' = "Unmatched"
    /\ req' = r
    /\ trace' = <<"Unmatched">>
    /\ UNCHANGED <<route, path_params, origins, values, errors, invoked, response>>

\* The router scans the table; a request without a full match is answered
\* by the router itself.
Dispatch ==
    /\ state = "Unmatched"
    /\ LET res == Resolve(app_routes, req.method, req.path)
       IN /\ state' = res.outcome
          /\ route' = res.idx
          /\ path_params' = IF res.outcome = "Matched" THEN res.params ELSE EmptyMap
          /\ response' =
                CASE res.outcome = "Matched" -> response
                  [] res.outcome = "MethodNotAllowed" -> Response(405, VNone, {}, <<>>)
                  [] res.outcome = "Redirected" ->
                        Response(307, VNone, {}, ToggleSlash(req.path))
                  [] res.outcome = "NotFound" -> Response(404, VNone, {}, <<>>)
          /\ trace' = Append(trace, res.outcome)
    /\ UNCHANGED <<req, origins, values, errors, invoked>>

\* The declared parameters of the matched route get their origins.
Classify ==
    /\ state = "Matched"
    /\ state' = "Classifying"
    /\ origins' = Classification(app_routes[route])
    /\ trace' = Append(trace, "Classifying")
    /\ UNCHANGED <<req, route, path_params, values, errors, invoked, response>>

\* Every parameter is resolved from its origin, coerced and checked.
Validate ==
    /\ state = "Classifying"
    /\ state' = "Validating"
    /\ values' = BoundValues(app_routes[route], req, path_params)
    /\ errors' = AllErrors(app_routes[route], req, path_params)
    /\ trace' = Append(trace, "Validating")
    /\ UNCHANGED <<req, route, path_params, origins, invoked, response>>

\* No failure: the path operation function is called with the bound values;
\* what it returns is serialized, what it raises becomes a server error.
Invoke ==
    /\ state = "Validating"
    /\ errors = {}
    /\ state' = "Bound"
    /\ invoked' = app_routes[route].handler
    /\ LET out == Call(app_routes[route].handler, values)
       IN response' = IF out.kind = "return"
                      THEN Response(200, Serialize(out.v), {}, <<>>)
                      ELSE Response(500, VNone, {}, <<>>)
    /\ trace' = Append(trace, "Bound")
    /\ UNCHANGED <<req, route, path_params, origins, values, errors>>

\* Some failure: the error response lists every failure; no function is called.
Reject ==
    /\ state = "Validating"
    /\ errors # {}
    /\ state' = "Rejected"
    /\ response' = Response(422, VNone, errors, <<>>)
    /\ trace' = Append(trace, "Rejected")
    /\ UNCHANGED <<req, route, path_params, origins, values, errors, invoked>>

\* The response has been sent; the request and everything bound for it are
\* discarded.
Finish ==
    /\ state \in Terminal
    /\ state' = "Idle"
    /\ req' = NoRequest
    /\ route' = 0
    /\ path_params' = EmptyMap
    /\ origins' = EmptyMap
    /\ values' = EmptyMap
    /\ errors' = {}
    /\ invoked' = ""
    /\ response' = NoResponse
    /\ trace' = <<>>

Next ==
    \/ \E r \in Requests : Receive(r)
    \/ Dispatch
    \/ Classify
    \/ Validate
    \/ Invoke
    \/ Reject
    \/ Finish

Spec == Init /\ [][Next]_vars

\* Every started request is carried to its end and answered.
FairSpec == Spec /\ WF_vars(Dispatch) /\ WF_vars(Classify) /\ WF_vars(Validate)
                 /\ WF_vars(Invoke) /\ WF_vars(Reject) /\ WF_vars(Finish)

TypeOK ==
    /\ state \in {"Idle", "Unmatched", "Matched", "Classifying", "Validating"} \cup Terminal
    /\ route \in 0..Len(app_routes)
    /\ response.status \in {0, 200, 307, 404, 405, 422, 500}

----------------------------------------------------------------------------
(* Properties *)

Routed == state \notin {"Idle", "Unmatched"}
Resolved == state \in {"Validating", "Bound", "Rejected"}
Handler == IF route = 0 THEN "" ELSE app_routes[route].handler

HasErrorAt(loc) == \E e \in errors : e.loc = loc
HasErrorUnder(origin) == \E e \in errors : e.loc[1] = origin

IndexOfHandler(table, h) == CHOOSE i \in 1..Len(table) : table[i].handler = h

\* The table with the registrations of handlers g and h exchanged.
Swapped(table, g, h) ==
    [i \in 1..Len(table) |->
        IF i = IndexOfHandler(table, g) THEN table[IndexOfHandler(table, h)]
        ELSE IF i = IndexOfHandler(table, h) THEN table[IndexOfHandler(table, g)]
        ELSE table[i]]

\* C1: routing is first-match-wins in registration order: the matched
\* template is the earliest one whose method and path both match; GET
\* /users/me calls read_user_me and binds no user_id, while with the two
\* /users registrations exchanged it would call read_user with
\* user_id = "me"; of the two GET /items/{item_id} registrations only
\* read_item is ever chosen, read_path_items never.
FirstMatchWins ==
    Routed =>
        /\ route # 0 =>
              /\ app_routes[route].method = req.method
              /\ PathMatches(app_routes[route].template, req.path)
              /\ \A j \in 1..(route - 1) :
                    ~(/\ app_routes[j].method = req.method
                      /\ PathMatches(app_routes[j].template, req.path))
        /\ route = 0 =>
              \A j \in 1..Len(app_routes) :
                    ~(/\ app_routes[j].method = req.method
                      /\ PathMatches(app_routes[j].template, req.path))
        /\ (req.method = "GET" /\ req.path = <<"users", "me">>) =>
              /\ Handler = "read_user_me"
              /\ "user_id" \notin DOMAIN path_params
              /\ LET other == Resolve(Swapped(app_routes, "read_user_me", "read_user"),
                                      req.method, req.path)
                 IN /\ other.handler = "read_user"
                    /\ other.params = [user_id |-> "me"]
        /\ (req.method = "GET" /\ req.path[1] = "items" /\ route # 0) =>
              Handler = "read_item"
        /\ Handler # "read_path_items"
        /\ invoked # "read_path_items"

\* C1 witness: GET /users/me has called read_user_me.
UsersMeServed ==
    /\ state = "Bound"
    /\ req.method = "GET"
    /\ req.path = <<"users", "me">>
    /\ invoked = "read_user_me"

Lifecycles(terminals) ==
    {<<"Unmatched", "Matched", "Classifying", "Validating", t>> :
        t \in {"Bound", "Rejected"} \cap terminals}
    \cup {<<"Unmatched", t>> : t \in terminals \ {"Bound", "Rejected"}}

IsPrefix(p, q) == Len(p) <= Len(q) /\ SubSeq(q, 1, Len(p)) = p

\* The state part of C2 for a given set of terminal outcomes.
LifecycleOver(terminals) ==
    /\ state # "Idle" =>
        /\ \E l \in Lifecycles(terminals) : IsPrefix(trace, l)
        /\ trace[Len(trace)] = state
    /\ (invoked # "") <=> (state = "Bound")
    /\ state = "Bound" =>
        /\ errors = {}
        /\ invoked = Handler
        /\ DOMAIN values = DeclNames(app_routes[route])
        /\ Handler = "read_numeric_items" =>
              /\ values["item_id"].n >= 1 /\ values["item_id"].n <= 1000
              /\ values["size"].x10 > 0 /\ values["size"].x10 < 105
              /\ values["q"] = VStr(req.query["q"][1])
    /\ state = "Rejected" => errors # {} /\ response.status = 422
    /\ state \in {"NotFound", "MethodNotAllowed", "Redirected"} =>
        /\ route = 0
        /\ path_params = EmptyMap
        /\ values = EmptyMap
    /\ state = "NotFound" =>
        \A j \in 1..Len(app_routes) : ~PathMatches(app_routes[j].template, req.path)

OriginByPrecedence(r, name) ==
    LET d == DeclOf(r, name)
    IN IF name \in PlaceholderNames(r.template) THEN "path"
       ELSE IF d.ann = "Body" THEN "body"
       ELSE IF d.ann = "Cookie" THEN "cookie"
       ELSE IF d.ann = "Query" THEN "query"
       ELSE IF IsModelType(d.type) THEN "body"
       ELSE "query"

KeyedBody(r) ==
    LET bodyDecls == {i \in 1..Len(r.params) :
                        /\ r.params[i].name \notin PlaceholderNames(r.template)
                        /\ \/ r.params[i].ann = "Body"
                           \/ r.params[i].ann = "" /\ IsModelType(r.params[i].type)}
    IN \/ Cardinality(bodyDecls) >= 2
       \/ \E i \in bodyDecls : r.params[i].embed

AsModel(cls, obj) ==
    VModel(cls, [k \in {ModelFields(cls)[i].name : i \in 1..Len(ModelFields(cls))} |->
                    IF k \in DOMAIN obj.f THEN obj.f[k] ELSE VNone])

\* C4: one body parameter without embed (book of create_book) takes the
\* JSON object itself; two or more body parameters (update_lib_item) or one
\* marked embed (update_field_item) take an object keyed by parameter name;
\* a body of the other shape is rejected without calling the handler.
BodyShape ==
    /\ (Routed /\ route # 0) =>
          KeyedBody(app_routes[route]) =
              (Handler \in {"update_lib_item", "update_field_item", "read_embed_body_item"})
    /\ (Resolved /\ Handler = "create_book") =>
        /\ ~KeyedBody(app_routes[route])
        /\ req.body = Some(ValidBook) =>
              /\ ~HasErrorUnder("body")
              /\ values["book"] = AsModel("Book", ValidBook)
        /\ req.body = Some(VObj([book |-> ValidBook])) =>
              /\ HasErrorUnder("body")
              /\ state # "Bound"
    /\ (Resolved /\ Handler = "update_lib_item") =>
        /\ KeyedBody(app_routes[route])
        /\ (\E n \in 1..999 :
                req.body = Some(VObj([item |-> ValidLibItem, importance |-> VInt(n)]))) =>
              /\ ~HasErrorUnder("body")
              /\ values["item"] = [AsModel("LibItem", ValidLibItem) EXCEPT
                                      !.f["category"] = VEnum("Category", "fiction")]
              /\ values["importance"] = req.body[1].f["importance"]
        /\ req.body = Some(ValidLibItem) =>
              /\ HasErrorAt(<<"body", "item">>)
              /\ HasErrorAt(<<"body", "importance">>)
              /\ state # "Bound"
    /\ (Resolved /\ Handler = "update_field_item") =>
        /\ KeyedBody(app_routes[route])
        /\ req.body = Some(VObj([item |-> ValidFieldItem])) =>
              /\ errors = {}
              /\ values["item"] = AsModel("FieldItem", ValidFieldItem)
        /\ req.body = Some(ValidFieldItem) =>
              /\ HasErrorAt(<<"body", "item">>)
              /\ state # "Bound"
    /\ state = "Rejected" => invoked = ""

\* C4 witness: PUT /field-items/7 with the item's fields at the root of the
\* body was rejected.
UnwrappedFieldItemRejected ==
    /\ state = "Rejected"
    /\ Handler = "update_field_item"
    /\ req.body = Some(ValidFieldItem)
    /\ invoked = ""

\* The required query parameter C5 names for a handler.
RequiredQuery(h) ==
    CASE h = "read_user_items" -> "needy"
      [] h = "read_numeric_items" -> "q"
      [] h = "read_query_items" -> "q"

\* C5: a required query parameter without default (needy of
\* read_user_items, q of read_numeric_items, q of read_query_items): absent,
\* the request is rejected with a failure for it, no default is bound and
\* the handler is not called; present and all else valid, the request is
\* bound and the parameter is exactly the string sent.
RequiredQueryParameter ==
    (Resolved /\ Handler \in {"read_user_items", "read_numeric_items", "read_query_items"}) =>
        LET n == RequiredQuery(Handler)
        IN /\ req.query[n] = Absent =>
                 /\ \E e \in errors : e.loc = <<"query", n>> /\ e.kind = "missing"
                 /\ n \notin DOMAIN values
                 /\ state # "Bound"
                 /\ invoked = ""
           /\ req.query[n] # Absent =>
                 /\ ~HasErrorAt(<<"query", n>>)
                 /\ values[n] = VStr(req.query[n][1])
                 /\ (state \in Terminal /\ \A e \in errors : e.loc = <<"query", n>>) =>
                        /\ state = "Bound"
                        /\ invoked = Handler

\* C5 witness: GET /users/1/items/x without needy was rejected.
NeedyMissingRejected ==
    /\ state = "Rejected"
    /\ Handler = "read_user_items"
    /\ req.query["needy"] = Absent
    /\ errors = {Err(<<"query", "needy">>, "missing", VNone, {})}

\* C6: ge/le are inclusive and gt/lt strict: item_id of read_numeric_items
\* passes at 1 and 1000 and fails at 0 and 1001; importance of
\* update_lib_item passes at 1 and 999 and fails at 0 and 1000; size of
\* read_numeric_items fails at 0 and 10.5; a rejected request calls no handler.
NumericBounds ==
    /\ (Resolved /\ Handler = "read_numeric_items") =>
        /\ path_params["item_id"] \in {"1", "999", "1000"} =>
              ~HasErrorAt(<<"path", "item_id">>)
        /\ path_params["item_id"] \in {"0", "1001"} =>
              HasErrorAt(<<"path", "item_id">>) /\ state # "Bound"
        /\ req.query["size"] \in {Some("0"), Some("10.5"), Some("10.6")} =>
              HasErrorAt(<<"query", "size">>) /\ state # "Bound"
        /\ req.query["size"] \in {Some("0.1"), Some("10.4")} =>
              ~HasErrorAt(<<"query", "size">>)
    /\ (Resolved /\ Handler = "update_lib_item") =>
        \A n \in ImportanceValues :
            req.body = Some(VObj([item |-> ValidLibItem, importance |-> VInt(n)])) =>
                /\ n \in {1, 999} => ~HasErrorAt(<<"body", "importance">>)
                /\ n \in {0, 1000} =>
                      HasErrorAt(<<"body", "importance">>) /\ state # "Bound"
    /\ state = "Rejected" => invoked = "" /\ response.status = 422

\* C6 witness: GET /numeric-items/1000 with a valid size was bound.
UpperBoundAccepted ==
    /\ state = "Bound"
    /\ invoked = "read_numeric_items"
    /\ path_params["item_id"] = "1000"
    /\ values["item_id"] = VInt(1000)

\* C7: GET /models/{model_name} is bound exactly for alexnet, resnet and
\* lenet; any other value is rejected with a failure naming the three
\* allowed values and get_model is not called; the response echoes the
\* value as a string with the message of its branch.
EnumPathParameter ==
    (state \in Terminal /\ Handler = "get_model") =>
        LET seg == req.path[2]
        IN /\ (state = "Bound") <=> (seg \in {"alexnet", "resnet", "lenet"})
           /\ state # "Bound" =>
                 /\ state = "Rejected"
                 /\ invoked = ""
                 /\ \E e \in errors :
                       /\ e.loc = <<"path", "model_name">>
                       /\ e.expected = {"alexnet", "resnet", "lenet"}
           /\ state = "Bound" =>
                 /\ invoked = "get_model"
                 /\ response.status = 200
                 /\ response.payload =
                       VObj([model_name |-> VStr(seg),
                             msg |-> VStr(CASE seg = "alexnet" -> "Deep Learning FTW!"
                                            [] seg = "lenet" -> "LeCNN all the images"
                                            [] seg = "resnet" -> "Have some residuals")])

\* C7 witness: GET /models/vgg was rejected.
UnknownModelRejected ==
    /\ state = "Rejected"
    /\ Handler = "get_model"
    /\ req.path = <<"models", "vgg">>

\* C8: {file_path:path} takes the whole remainder of the path, slashes
\* included, as one string: GET /files/a/b/c calls read_files with
\* file_path = "a/b/c"; an ordinary placeholder takes exactly one non-empty
\* segment, so /users/a/b never reaches read_user.
TrailingPathPlaceholder ==
    /\ (state \in Terminal /\ req.method = "GET" /\ req.path = <<"files", "a", "b", "c">>) =>
        /\ state = "Bound"
        /\ invoked = "read_files"
        /\ path_params = [file_path |-> "a/b/c"]
        /\ values["file_path"] = VStr("a/b/c")
    /\ (Routed /\ Handler = "read_files") =>
        /\ Len(req.path) >= 2
        /\ path_params["file_path"] = Join(SubSeq(req.path, 2, Len(req.path)))
        /\ Len(req.path) = 3 =>
              path_params["file_path"] = req.path[2] \o "/" \o req.path[3]
    /\ (Routed /\ route # 0) =>
        LET t == app_routes[route].template
        IN \A i \in 1..Len(t) :
              t[i].kind = "param" =>
                  /\ Len(req.path) = Len(t)
                  /\ req.path[i] # ""
                  /\ path_params[t[i].text] = req.path[i]
    /\ (Routed /\ req.path = <<"users", "a", "b">>) => route = 0
    /\ (Routed /\ Handler = "read_user") => Len(req.path) = 2

\* C8 witness: GET /files/a/b/c was served by read_files.
NestedFileServed ==
    /\ state = "Bound"
    /\ req.path = <<"files", "a", "b", "c">>
    /\ invoked = "read_files"

\* C9: a bound GET /users/{user_id}/items/{item_id} answers with item_id,
\* owner_id (the bound user_id) and needy, with q exactly when q is a
\* non-empty string and with the long description exactly when short is false.
UserItemsEcho ==
    (state = "Bound" /\ invoked = "read_user_items") =>
        /\ response.status = 200
        /\ response.payload.t = "obj"
        /\ LET body == response.payload.f
           IN /\ {"item_id", "owner_id", "needy"} \subseteq DOMAIN body
              /\ body["item_id"] = values["item_id"]
              /\ body["owner_id"] = values["user_id"]
              /\ body["needy"] = values["needy"]
              /\ ("q" \in DOMAIN body) <=> (values["q"].t = "str" /\ values["q"].s # "")
              /\ ("description" \in DOMAIN body) <=> (values["short"] = VBool(FALSE))

\* C10: a POST /books/{category} with a category of the enumeration and a
\* valid Book is bound and create_book completes: the answer carries the
\* book's declared fields and quantity (1 when not sent), never a fault.
CreateBookCompletes ==
    /\ (state \in Terminal /\ req.method = "POST" /\ req.path[1] = "books"
          /\ req.path[2] \in {"fiction", "non-fiction"} /\ req.body = Some(ValidBook)
          /\ req.query["quantity"] \in {Absent, Some("2")}) =>
        /\ state = "Bound"
        /\ invoked = "create_book"
        /\ response.status = 200
        /\ response.payload =
              VObj(Update(ValidBook.f,
                          [quantity |-> IF req.query["quantity"] = Absent
                                        THEN VInt(1) ELSE VInt(2)]))
    /\ response.status # 500

====
